---- MODULE Spec2Model ----
(***************************************************************************)
(* APEX traffic signal optimizer: the decision engine                      *)
(* (server/decision_engine.py), its caller (server/main.py), the maps     *)
(* adapter (server/maps_adapter.py) and the data contracts (models.py).    *)
(*                                                                         *)
(* Number representation.  Every Python float is a fixed-point integer in  *)
(* units of 1e-6 (Unit), the size of the epsilon the engine itself adds in *)
(* _softmax.  Products and quotients round towards minus infinity at that  *)
(* resolution.  A softmax probability additionally carries what binary64   *)
(* decides and fixed point cannot show: whether the value is non-zero      *)
(* (np.exp underflows to 0.0 below 2^-1075).                               *)
(***************************************************************************)
EXTENDS Integers, Sequences, FiniteSets, TLC

VARIABLES
    lanes,          \* decide's argument: Dict[LaneDirection, LaneState], in dict order
    now,            \* time.time()
    pc,             \* where the caller of decide / the request handler is
    priorities,     \* decide's local after step 3 (net priorities), per dict position
    adjusted,       \* decide's local after step 4 (recent green decay)
    probabilities,  \* decide's local after step 5 (softmax)
    decision,       \* the SignalDecision returned, <<>> while there is none
    request,        \* the DecisionRequest as the handler received it, <<>> before any
    response,       \* what make_decision answered, <<>> before any
    cache,          \* MapsAdapter.cache: key -> <<(data, cached_time)>>, <<>> if absent
    active_accidents,  \* MapsAdapter.active_accidents: road -> <<end time>>, <<>> if absent
    engine,         \* the fields of the one DecisionEngine instance
    calls,          \* the decide invocations in progress on it, each with its locals
    rng,            \* the state of NumPy's global generator: the draws it has made
    query           \* the last call on the maps adapter and its answer, <<>> before any

vars == <<lanes, now, pc, priorities, adjusted, probabilities, decision,
          request, response, cache, active_accidents, engine, calls, rng, query>>

\* what the decision endpoint leaves alone
otherVars == <<engine, calls, rng, query>>

---------------------------------------------------------------------------
(* Fixed-point arithmetic standing for Python's float arithmetic.          *)

Unit == 1000000

Abs(a) == IF a < 0 THEN -a ELSE a

Max(a, b) == IF a >= b THEN a ELSE b

Min(a, b) == IF a <= b THEN a ELSE b

\* floor(a * b / c) for c > 0, b >= 0, without forming a * b
MulDiv(a, b, c) == (a \div c) * b + ((a % c) * b) \div c

\* floor(a * b / Unit) for a, b >= 0, in limbs of 1000 so that no partial
\* product exceeds 32 bits
MulAbs(a, b) ==
    LET ah == a \div Unit
        al == a % Unit
        bh == b \div Unit
        bl == b % Unit
        a1 == al \div 1000
        a0 == al % 1000
        b1 == bl \div 1000
        b0 == bl % 1000
    IN  ah * b + al * bh + a1 * b1
          + ((a1 * b0 + a0 * b1) * 1000 + a0 * b0) \div Unit

\* x * y of two floats
Mul(a, b) ==
    IF (a < 0) = (b < 0) THEN MulAbs(Abs(a), Abs(b)) ELSE -MulAbs(Abs(a), Abs(b))

\* x / y for the divisors the code uses: multiples of 0.1
Div(a, b) == MulDiv(a, 10, b \div (Unit \div 10))

\* float(n) of an int
Float(n) == n * Unit

---------------------------------------------------------------------------
(* models.py: the data contracts.                                          *)

LaneDirection == {"North", "South", "East", "West"}

\* Optional[DownstreamData]: <<>> is None, <<d>> is the record d
None == <<>>

\* no SignalDecision
NoDecision == None

VehicleCount(car, bike, truck, bus, emergency, pedestrians) ==
    [car |-> car, bike |-> bike, truck |-> truck, bus |-> bus,
     emergency |-> emergency, pedestrians |-> pedestrians]

\* Field(ge=0, le=100) of VisionOutput.avgSpeed and DownstreamData.avgSpeed
ValidSpeed(s) == 0 <= s /\ s <= Float(100)

\* Field(ge=0, le=1) of laneOccupancy, confidenceScore, congestionIndex
ValidFraction(f) == 0 <= f /\ f <= Float(1)

DownstreamData(avgSpeed, congestionIndex, ttl) ==
    [avgSpeed |-> avgSpeed, congestionIndex |-> congestionIndex, ttl |-> ttl]

DecisionReason(emergency, maxWaitViolation, downstreamPenalty, recentGreenDecay, softmaxProbability, localTrafficScore) ==
    [emergency |-> emergency, maxWaitViolation |-> maxWaitViolation,
     downstreamPenalty |-> downstreamPenalty, recentGreenDecay |-> recentGreenDecay,
     softmaxProbability |-> softmaxProbability, localTrafficScore |-> localTrafficScore]

SignalDecision(selectedLane, greenDuration, decisionConfidence, reasonTrace, timestamp) ==
    [selectedLane |-> selectedLane, greenDuration |-> greenDuration,
     decisionConfidence |-> decisionConfidence, reasonTrace |-> reasonTrace,
     timestamp |-> timestamp]

---------------------------------------------------------------------------
(* decision_engine.py: DecisionEngine.__init__                             *)

MAX_WAIT_TIME == Float(120)

\* a floor of 10 seconds in place of 5
MIN_GREEN_10 == Float(10)

MIN_GREEN == Float(5)

MAX_GREEN == Float(60)

\* a window of one minute
RECENT_GREEN_DECAY_WINDOW_60 == Float(60)

RECENT_GREEN_DECAY_WINDOW == Float(30)

TEMPERATURE == 7 * (Unit \div 10)

VEHICLE_WEIGHTS ==
    [car |-> Float(1), bike |-> 3 * (Unit \div 10), truck |-> 15 * (Unit \div 10),
     bus |-> 15 * (Unit \div 10), emergency |-> Float(10),
     pedestrians |-> 5 * (Unit \div 10)]

RAIN_BIKE_MULTIPLIER == Float(2)

\* the instance as __init__ leaves it
DecisionEngine ==
    [MAX_WAIT_TIME |-> MAX_WAIT_TIME, MIN_GREEN |-> MIN_GREEN, MAX_GREEN |-> MAX_GREEN,
     RECENT_GREEN_DECAY_WINDOW |-> RECENT_GREEN_DECAY_WINDOW,
     TEMPERATURE |-> TEMPERATURE, VEHICLE_WEIGHTS |-> VEHICLE_WEIGHTS,
     RAIN_BIKE_MULTIPLIER |-> RAIN_BIKE_MULTIPLIER]

---------------------------------------------------------------------------
(* The lanes dict: a sequence of LaneState records in insertion order,     *)
(* keyed by their direction.                                               *)

Keys(ls) == {ls[i].direction : i \in 1..Len(ls)}

IndexOf(ls, d) == CHOOSE i \in 1..Len(ls) : ls[i].direction = d

Lookup(ls, d) == ls[IndexOf(ls, d)]

\* the first position of the dict iteration whose test is true, 0 if none
FirstIndex(hits) ==
    IF \E i \in DOMAIN hits : hits[i]
    THEN CHOOSE i \in DOMAIN hits : hits[i] /\ \A j \in 1..(i - 1) : ~hits[j]
    ELSE 0

---------------------------------------------------------------------------
(* decision_engine.py: the pipeline's steps                                *)

IsEmergency(lane) == lane.vision.ambulanceDetected

\* a loop that keeps the last match instead of returning the first
_check_emergency_last(ls) ==
    LET hits == {i \in 1..Len(ls) : IsEmergency(ls[i])}
    IN  IF hits = {} THEN None
        ELSE <<ls[CHOOSE i \in hits : \A j \in hits : j <= i].direction>>

\* returns the direction, or None
_check_emergency(ls) ==
    LET i == FirstIndex([k \in DOMAIN ls |-> IsEmergency(ls[k])])
    IN  IF i = 0 THEN None ELSE <<ls[i].direction>>

\* >= where the code has >
ExceedsMaxWaitInclusive(lane) == lane.waitTime >= MAX_WAIT_TIME

ExceedsMaxWait(lane) == lane.waitTime > MAX_WAIT_TIME

_check_max_wait(ls) ==
    LET i == FirstIndex([k \in DOMAIN ls |-> ExceedsMaxWait(ls[k])])
    IN  IF i = 0 THEN None ELSE <<ls[i].direction>>

\* the largest magnitude of a Python int that converts to float: 2^1024 in
\* binary64, here on the scale of the model's floats
FloatRange == 2000

\* int * float and float(int) raise OverflowError on an int out of float range
Overflows(n) == Abs(n) > FloatRange

\* _calculate_local_traffic_score(lane) raises: one of its products overflows
ScoreOverflows(lane) ==
    LET vehicles == lane.vision.vehicleCountByType
    IN  \/ Overflows(vehicles.car) \/ Overflows(vehicles.bike)
        \/ Overflows(vehicles.truck) \/ Overflows(vehicles.bus)
        \/ Overflows(vehicles.emergency) \/ Overflows(vehicles.pedestrians)

\* the score with the rain adjustment added last, after the speed and
\* occupancy factors
_calculate_local_traffic_score_rain_last(lane) ==
    LET vehicles == lane.vision.vehicleCountByType
        base == vehicles.car * VEHICLE_WEIGHTS.car
                  + vehicles.bike * VEHICLE_WEIGHTS.bike
                  + vehicles.truck * VEHICLE_WEIGHTS.truck
                  + vehicles.bus * VEHICLE_WEIGHTS.bus
                  + vehicles.emergency * VEHICLE_WEIGHTS.emergency
                  + vehicles.pedestrians * VEHICLE_WEIGHTS.pedestrians
        speed_factor == Max(0, Float(1) - Div(lane.vision.avgSpeed, Float(60)))
        slowed == Mul(base, Float(1) + speed_factor)
        occupied == Mul(slowed, Float(1) + lane.vision.laneOccupancy)
    IN  IF lane.vision.rainDetected
        THEN occupied + Mul(vehicles.bike * VEHICLE_WEIGHTS.bike,
                            RAIN_BIKE_MULTIPLIER - Float(1))
        ELSE occupied

_calculate_local_traffic_score(lane) ==
    LET vehicles == lane.vision.vehicleCountByType
        base == vehicles.car * VEHICLE_WEIGHTS.car
                  + vehicles.bike * VEHICLE_WEIGHTS.bike
                  + vehicles.truck * VEHICLE_WEIGHTS.truck
                  + vehicles.bus * VEHICLE_WEIGHTS.bus
                  + vehicles.emergency * VEHICLE_WEIGHTS.emergency
                  + vehicles.pedestrians * VEHICLE_WEIGHTS.pedestrians
        rained == IF lane.vision.rainDetected
                  THEN base + Mul(vehicles.bike * VEHICLE_WEIGHTS.bike,
                                  RAIN_BIKE_MULTIPLIER - Float(1))
                  ELSE base
        speed_factor == Max(0, Float(1) - Div(lane.vision.avgSpeed, Float(60)))
        slowed == Mul(rained, Float(1) + speed_factor)
    IN  Mul(slowed, Float(1) + lane.vision.laneOccupancy)

_calculate_downstream_priority(lane) ==
    IF lane.downstream = None
    THEN Float(1)
    ELSE Max(Unit \div 10, Div(lane.downstream[1].avgSpeed, Float(60)))

\* per dict position
_calculate_net_priorities(ls) ==
    [i \in 1..Len(ls) |->
        LET local_score == _calculate_local_traffic_score(ls[i])
            downstream_priority == _calculate_downstream_priority(ls[i])
        IN  Mul(local_score, Mul(downstream_priority, downstream_priority))]

\* the decay starting at 1 and falling, instead of starting at 0 and rising
RecentGreenDecayInverted(lane, current_time) ==
    LET time_since_green == current_time - lane.lastGreenTime
    IN  IF time_since_green < Float(30)
        THEN Float(1) - Div(time_since_green, Float(30))
        ELSE Float(1)

RecentGreenDecay(lane, current_time) ==
    LET time_since_green == current_time - lane.lastGreenTime
    IN  IF time_since_green < RECENT_GREEN_DECAY_WINDOW
        THEN Div(time_since_green, RECENT_GREEN_DECAY_WINDOW)
        ELSE Float(1)

_apply_recent_green_decay(ls, prio, current_time) ==
    [i \in 1..Len(ls) |-> Mul(prio[i], RecentGreenDecay(ls[i], current_time))]

---------------------------------------------------------------------------
(* decision_engine.py: _softmax and _select_lane.  np.exp is binary64: its *)
(* result is the fixed-point value below plus the fact whether the double  *)
(* is non-zero.                                                            *)

\* the 1e-6 added to every priority
Epsilon == Unit \div 1000000

\* log2(e), in units of 1e-6
Log2e == 1442695

\* np.exp(x) is 0.0 for x <= ln(2^-1075) = -745.1332191...
ExpUnderflow == 745133219

\* np.exp(x) is the least subnormal 2^-1074 for ln(2^-1075) < x < ln(1.5 * 2^-1074)
ExpLeastSubnormal == 744034607

\* below this exponent the fixed-point value of exp is 0 (e^-14 < 1e-6)
ExpFixedCut == Float(14)

\* 2^f for 0 <= f <= 1: cubic through 2^0 = 1 and 2^1 = 2, error < 2e-4
Pow2Frac(f) == Unit + Mul(f, 695900 + Mul(f, 225000 + Mul(f, 79100)))

\* floor(e^x * Unit) for x <= 0
ExpFixed(x) ==
    IF -x >= ExpFixedCut
    THEN 0
    ELSE LET t == MulAbs(-x, Log2e)        \* e^x = 2^-t
             k == t \div Unit
             g == t % Unit
         IN  Pow2Frac(Unit - g) \div (2 ^ (k + 1))

\* np.exp(x) for x <= 0
NpExp(x) == [fx |-> ExpFixed(x), nz |-> -x < ExpUnderflow, ulp |-> -x > ExpLeastSubnormal]

SeqMax(s) == CHOOSE m \in {s[i] : i \in DOMAIN s} : \A j \in DOMAIN s : s[j] <= m

RECURSIVE SeqSum(_)
SeqSum(s) == IF s = <<>> THEN 0 ELSE s[1] + SeqSum(Tail(s))

\* probabilities carry nine decimals
ProbUnit == 1000000000

\* the first n decimals of r / s, for 0 <= r < s
RECURSIVE FracDigits(_, _, _)
FracDigits(r, s, n) ==
    IF n = 0 THEN 0
    ELSE ((r * 10) \div s) * (10 ^ (n - 1)) + FracDigits((r * 10) % s, s, n - 1)

\* exp_value / total of binary64: p is the quotient to nine decimals; the
\* double is 0.0 when exp_value is, or when the least subnormal is divided
\* by 2.0 or more
NpDivide(e, total) ==
    [p  |-> (e.fx \div total) * ProbUnit + FracDigits(e.fx % total, total, 9),
     nz |-> e.nz /\ ~(e.ulp /\ total >= Float(2))]

\* the softmax that forgets the priorities: every lane the same probability
_softmax_uniform(prio, temperature) ==
    [i \in DOMAIN prio |-> [p |-> ProbUnit \div Len(prio), nz |-> TRUE]]

_softmax(prio, temperature) ==
    LET values == [i \in DOMAIN prio |-> prio[i] + Epsilon]
        scaled == [i \in DOMAIN prio |-> Div(values[i], temperature)]
        top == SeqMax(scaled)
        exp_values == [i \in DOMAIN prio |-> NpExp(scaled[i] - top)]
        total == SeqSum([i \in DOMAIN prio |-> exp_values[i].fx])
    IN  [i \in DOMAIN prio |-> NpDivide(exp_values[i], total)]

\* np.random.choice(len(directions), p=probs): the indices it can return
RandomChoice(probs) == {i \in DOMAIN probs : probs[i].nz}

_select_lane(ls, probs, selected_idx) == ls[selected_idx].direction

\* the confidence-scaled duration returned without the final clamp
_calculate_green_duration_unclamped(lane) ==
    LET local_score == _calculate_local_traffic_score(lane)
        normalized == Min(Div(local_score, Float(50)), Float(1))
        duration == MIN_GREEN + Mul(MAX_GREEN - MIN_GREEN, normalized)
    IN  Mul(duration, lane.vision.confidenceScore)

_calculate_green_duration(lane) ==
    LET local_score == _calculate_local_traffic_score(lane)
        normalized == Min(Div(local_score, Float(50)), Float(1))
        duration == MIN_GREEN + Mul(MAX_GREEN - MIN_GREEN, normalized)
        scaled == Mul(duration, lane.vision.confidenceScore)
    IN  Max(MIN_GREEN, Min(MAX_GREEN, scaled))

_create_decision(lane, duration, ls, prio, probs, t) ==
    SignalDecision(lane, duration, probs[IndexOf(ls, lane)].p,
        DecisionReason(FALSE, FALSE,
            Float(1) - _calculate_downstream_priority(Lookup(ls, lane)),
            Float(1), probs[IndexOf(ls, lane)].p,
            _calculate_local_traffic_score(Lookup(ls, lane))),
        t)

_create_emergency_decision(lane, ls, t) ==
    SignalDecision(lane, MAX_GREEN, ProbUnit,
        DecisionReason(TRUE, FALSE, 0, Float(1), ProbUnit, Float(999)), t)

_create_forced_decision(lane, ls, reason_type, t) ==
    SignalDecision(lane, MIN_GREEN, ProbUnit,
        DecisionReason(FALSE, reason_type = "max_wait_violation", 0, Float(1),
            ProbUnit, _calculate_local_traffic_score(Lookup(ls, lane))), t)

\* steps 3 to 5 of decide: its locals on the path without override
Scoring(ls, t) ==
    LET net == _calculate_net_priorities(ls)
        adj == _apply_recent_green_decay(ls, net, t)
    IN  [priorities |-> net, adjusted |-> adj,
         probabilities |-> _softmax(adj, TEMPERATURE)]

NoLocals == [priorities |-> <<>>, adjusted |-> <<>>, probabilities |-> <<>>]

\* a call that ends in the exception exc
Raise(exc) == [raised |-> <<exc>>, decision |-> <<>>, locals |-> NoLocals]

\* a call that returns d
Return(d, locals) == [raised |-> None, decision |-> <<d>>, locals |-> locals]

\* decide(lanes) at time t: what the call can end in, one result per index
\* np.random.choice can draw; each result is the exception raised or the
\* decision returned, and the locals the call computed
decide(ls, t) ==
    LET emergency_lane == _check_emergency(ls)
        max_wait_lane == _check_max_wait(ls)
    IN  IF emergency_lane # None
        THEN {Return(_create_emergency_decision(emergency_lane[1], ls, t), NoLocals)}
        ELSE IF max_wait_lane # None
        THEN IF ScoreOverflows(Lookup(ls, max_wait_lane[1]))
             THEN {Raise("OverflowError")}
             ELSE {Return(_create_forced_decision(max_wait_lane[1], ls,
                                                  "max_wait_violation", t), NoLocals)}
        ELSE IF \E i \in 1..Len(ls) : ScoreOverflows(ls[i])
        THEN {Raise("OverflowError")}
        ELSE LET sc == Scoring(ls, t)
             IN  {LET selected_lane == _select_lane(ls, sc.probabilities, selected_idx)
                      green_duration ==
                          _calculate_green_duration(Lookup(ls, selected_lane))
                  IN  Return(_create_decision(selected_lane, green_duration, ls,
                                              sc.adjusted, sc.probabilities, t), sc) :
                  selected_idx \in RandomChoice(sc.probabilities)}

---------------------------------------------------------------------------
(* The snapshots decide is applied to.                                     *)

VisionOutput(counts, avgSpeed, laneOccupancy, ambulanceDetected, rainDetected, confidenceScore) ==
    [vehicleCountByType |-> counts, avgSpeed |-> avgSpeed,
     laneOccupancy |-> laneOccupancy, ambulanceDetected |-> ambulanceDetected,
     rainDetected |-> rainDetected, confidenceScore |-> confidenceScore]

LaneState(direction, vision, downstream, waitTime, lastGreenTime) ==
    [direction |-> direction, vision |-> vision, downstream |-> downstream,
     waitTime |-> waitTime, lastGreenTime |-> lastGreenTime]

\* the largest car count of a lane
HeavyCars == 131

\* the clock reading of the first call, in seconds
StartTime == 1000

Half == Unit \div 2

NoVehicles == VehicleCount(0, 0, 0, 0, 0, 0)

\* a count out of float range
Huge == FloatRange + 1

VehicleMixes ==
    {NoVehicles, VehicleCount(0, 10, 0, 0, 0, 0), VehicleCount(20, 0, 0, 0, 0, 0),
     VehicleCount(HeavyCars, 0, 0, 0, 0, 0), VehicleCount(1, 1, 1, 1, 1, 1),
     VehicleCount(0, Huge, 0, 0, 0, 0)}

Speeds == {0, Float(30), Float(100)}

Downstreams ==
    {None} \cup {<<DownstreamData(s, 0, 60)>> : s \in {0, Float(3), Float(60), Float(100)}}

\* lastGreenTime relative to the clock: served this instant, inside the decay
\* window, at its end, long ago (the default 0), and a timestamp ahead of the clock
LastGreens(t) == {t, t - Float(15), t - Float(30), 0, t + Float(15)}

WaitTimes == {0, MAX_WAIT_TIME, MAX_WAIT_TIME + Epsilon, Float(130)}

\* dict orders of the request, the last a partial intersection
Orders ==
    {<<"North", "South", "East", "West">>, <<"West", "East", "South", "North">>,
     <<"South", "East">>}

\* lanes that differ in what the safety overrides read
OverrideLanes(d) ==
    {LaneState(d, VisionOutput(VehicleCount(20, 0, 0, 0, 0, 0), Float(30), Half, amb,
                               FALSE, Float(1)), None, w, 0) :
        amb \in BOOLEAN, w \in WaitTimes \ {Float(130)}}

\* lanes that differ in what the local score and the duration read
ScoreLanes(d) ==
    {LaneState(d, VisionOutput(mix, speed, occ, FALSE, rain, conf), None, 0, 0) :
        mix \in VehicleMixes, speed \in Speeds, occ \in {0, Float(1)},
        rain \in BOOLEAN, conf \in {0, Half, Float(1)}}

\* lanes that differ in what the net priority and the decay read
PriorityLanes(d, t) ==
    {LaneState(d, VisionOutput(mix, 0, Float(1), FALSE, FALSE, Float(1)), ds, 0, lg) :
        mix \in VehicleMixes, ds \in Downstreams, lg \in LastGreens(t)}

\* the other lanes of a snapshot: empty and served this instant; loaded, at the
\* wait limit and served 30 s ago; heavy, poorly detected and served this instant
BackgroundLane(d, t, n) ==
    CASE n = 0 ->
            LaneState(d, VisionOutput(NoVehicles, 0, 0, FALSE, FALSE, Float(1)),
                      None, 0, t)
      [] n = 1 ->
            LaneState(d, VisionOutput(VehicleCount(20, 0, 0, 0, 0, 0), 0, Float(1),
                                      FALSE, FALSE, Float(1)),
                      None, MAX_WAIT_TIME, t - Float(30))
      [] OTHER ->
            LaneState(d, VisionOutput(VehicleCount(HeavyCars, 0, 0, 0, 0, 0), 0,
                                      Float(1), FALSE, FALSE, Half),
                      None, 0, t)

\* the dicts with one lane of focus at position k; the other positions take
\* the three background lanes in rotation, or all the empty one
Focused(order, k, focus, t) ==
    {[i \in 1..Len(order) |->
        IF i = k THEN f
        ELSE BackgroundLane(order[i], t, IF c = 3 THEN 0 ELSE (c + i) % 3)] :
        f \in focus[order[k]], c \in 0..3}

Snapshots(t) ==
    UNION {
        {ls \in [1..Len(order) -> UNION {OverrideLanes(d) : d \in LaneDirection}] :
            \A i \in 1..Len(order) : ls[i].direction = order[i]}
        \cup UNION {Focused(order, k, [d \in LaneDirection |-> ScoreLanes(d)], t) :
                        k \in {1, Len(order)}}
        \cup UNION {Focused(order, k, [d \in LaneDirection |-> PriorityLanes(d, t)], t) :
                        k \in {1, Len(order)}}
        : order \in Orders}

---------------------------------------------------------------------------
(* maps_adapter.py: MapsAdapter.  Every operator takes the adapter's fields *)
(* it reads and returns the ones it writes; a draw holds what one call     *)
(* takes from datetime.now() and from the random module.                   *)

Pct(n) == n * (Unit \div 100)

downstream_roads ==
    [d \in LaneDirection |->
        CASE d = "North" -> "road_north_downtown"
          [] d = "South" -> "road_south_highway"
          [] d = "East" -> "road_east_residential"
          [] d = "West" -> "road_west_industrial"]

Roads == {downstream_roads[d] : d \in LaneDirection}

cache_ttl == 60

simulation_mode == TRUE

\* the weather strings the callers pass; make_decision passes "Clear Sky"
WeatherStrings == {"Clear Sky", "Thunderstorm", "Snow", "Fog", ""}

\* str(weather_condition) in the cache key: None prints as "None"
Weathers == WeatherStrings \cup {"None"}

\* f"{lane.value}_{weather_condition}", weather_condition being <<>> for None
CacheKey(lane, weather_condition) ==
    <<lane, IF weather_condition = None THEN "None" ELSE weather_condition[1]>>

CacheKeys == LaneDirection \X Weathers

\* the words of the weather tests that weather_condition.lower() contains
WeatherWords(weather_condition) ==
    CASE weather_condition = "Thunderstorm" -> {"storm"}
      [] weather_condition = "Heavy Rain" -> {"heavy rain", "rain"}
      [] weather_condition = "Light Rain" -> {"rain"}
      [] weather_condition = "Fog" -> {"fog"}
      [] weather_condition = "Snow" -> {"snow"}
      [] OTHER -> {}

\* random.uniform(a, b) with the unit draw u
Uniform(a, b, u) == a + Mul(b - a, u)

\* round(x, ndigits) to a multiple of step
Round(x, step) == ((x + step \div 2) \div step) * step

_get_time_of_day_factor(hour, day_of_week, u) ==
    LET is_weekend == day_of_week >= 5
    IN  IF is_weekend
        THEN IF 10 <= hour /\ hour <= 20
             THEN Uniform(Pct(80), Pct(95), u)
             ELSE Uniform(Pct(95), Pct(110), u)
        ELSE IF 7 <= hour /\ hour <= 9 THEN Uniform(Pct(40), Pct(60), u)
        ELSE IF 17 <= hour /\ hour <= 19 THEN Uniform(Pct(30), Pct(50), u)
        ELSE IF 10 <= hour /\ hour <= 16 THEN Uniform(Pct(70), Pct(90), u)
        ELSE IF 22 <= hour \/ hour <= 5 THEN Uniform(Pct(100), Pct(120), u)
        ELSE Uniform(Pct(80), Pct(100), u)

\* weather_condition is <<>> for None, <<w>> for the string w
_get_weather_factor(weather_condition, u) ==
    IF weather_condition = None \/ weather_condition = <<"">>
    THEN Float(1)
    ELSE LET weather_lower == WeatherWords(weather_condition[1])
         IN  IF "storm" \in weather_lower \/ "heavy rain" \in weather_lower
             THEN Uniform(Pct(50), Pct(70), u)
             ELSE IF "rain" \in weather_lower \/ "drizzle" \in weather_lower
             THEN Uniform(Pct(80), Pct(90), u)
             ELSE IF "fog" \in weather_lower THEN Uniform(Pct(70), Pct(85), u)
             ELSE IF "snow" \in weather_lower THEN Uniform(Pct(40), Pct(60), u)
             ELSE Float(1)

\* the factor, and active_accidents as the call leaves it
_check_accidents(lane, accidents, current_time, draw) ==
    LET road_id == downstream_roads[lane]
    IN  IF accidents[road_id] # <<>>
        THEN IF current_time < accidents[road_id][1]
             THEN [factor |-> Uniform(Pct(20), Pct(40), draw.u_accident),
                   active_accidents |-> accidents]
             ELSE [factor |-> Float(1),
                   active_accidents |-> [accidents EXCEPT ![road_id] = <<>>]]
        ELSE IF draw.roll
        THEN [factor |-> Uniform(Pct(20), Pct(40), draw.u_accident),
              active_accidents |->
                  [accidents EXCEPT ![road_id] = <<current_time + Float(draw.duration)>>]]
        ELSE [factor |-> Float(1), active_accidents |-> accidents]

road_type_speeds ==
    [d \in LaneDirection |->
        CASE d = "North" -> 45 [] d = "South" -> 70 [] d = "East" -> 35
          [] d = "West" -> 50]

\* the simulation without the clamps on the speed and on the congestion index
_simulate_downstream_traffic_unclamped(lane, weather_condition, accidents, current_time, draw) ==
    LET base_speed == Float(road_type_speeds[lane])
        time_factor == _get_time_of_day_factor(draw.hour, draw.day_of_week, draw.u_time)
        weather_factor == _get_weather_factor(weather_condition, draw.u_weather)
        random_factor == Uniform(Pct(85), Pct(115), draw.u_random)
        acc == _check_accidents(lane, accidents, current_time, draw)
        final_speed == Mul(Mul(Mul(Mul(base_speed, time_factor), weather_factor),
                               random_factor), acc.factor)
        congestion_index == Float(1) - Div(final_speed, Mul(base_speed, Pct(120)))
    IN  [data |-> DownstreamData(Round(final_speed, Unit \div 10),
                                 Round(congestion_index, Unit \div 100), cache_ttl),
         active_accidents |-> acc.active_accidents]

_simulate_downstream_traffic(lane, weather_condition, accidents, current_time, draw) ==
    LET base_speed == Float(road_type_speeds[lane])
        time_factor == _get_time_of_day_factor(draw.hour, draw.day_of_week, draw.u_time)
        weather_factor == _get_weather_factor(weather_condition, draw.u_weather)
        random_factor == Uniform(Pct(85), Pct(115), draw.u_random)
        acc == _check_accidents(lane, accidents, current_time, draw)
        product == Mul(Mul(Mul(Mul(base_speed, time_factor), weather_factor),
                           random_factor), acc.factor)
        final_speed == Max(Float(5), Min(Float(100), product))
        max_speed == Mul(base_speed, Pct(120))
        congestion_index ==
            Max(0, Min(Float(1), Float(1) - Div(final_speed, max_speed)))
    IN  [data |-> DownstreamData(Round(final_speed, Unit \div 10),
                                 Round(congestion_index, Unit \div 100), cache_ttl),
         active_accidents |-> acc.active_accidents]

\* the data returned, and the adapter's cache and active_accidents after the call
get_downstream_traffic(ad, lane, weather_condition, current_time, draw) ==
    LET cache_key == CacheKey(lane, weather_condition)
        hit == /\ ad.cache[cache_key] # <<>>
               /\ current_time - ad.cache[cache_key][1].cached_time < Float(cache_ttl)
    IN  IF hit
        THEN [data |-> ad.cache[cache_key][1].data, cache |-> ad.cache,
              active_accidents |-> ad.active_accidents]
        ELSE LET sim == IF simulation_mode
                        THEN _simulate_downstream_traffic(lane, weather_condition,
                                 ad.active_accidents, current_time, draw)
                        ELSE _simulate_downstream_traffic(lane, None,
                                 ad.active_accidents, current_time, draw)
             IN  [data |-> sim.data,
                  cache |-> [ad.cache EXCEPT ![cache_key] =
                                <<[data |-> sim.data, cached_time |-> current_time]>>],
                  active_accidents |-> sim.active_accidents]

\* self.cache.clear()
EmptyCache == [k \in CacheKeys |-> <<>>]

\* the adapter after set_weather(weather_condition)
set_weather(ad, weather_condition) ==
    [cache |-> EmptyCache, active_accidents |-> ad.active_accidents]

\* trigger_accident without the cache.clear()
trigger_accident_keeping_cache(ad, lane, duration_minutes, current_time) ==
    [cache |-> ad.cache,
     active_accidents |->
        [ad.active_accidents EXCEPT ![downstream_roads[lane]] =
            <<current_time + Float(duration_minutes * 60)>>]]

\* the adapter after trigger_accident(lane, duration_minutes)
trigger_accident(ad, lane, duration_minutes, current_time) ==
    [cache |-> EmptyCache,
     active_accidents |->
        [ad.active_accidents EXCEPT ![downstream_roads[lane]] =
            <<current_time + Float(duration_minutes * 60)>>]]

\* the adapter after clear_accidents()
clear_accidents(ad) ==
    [cache |-> EmptyCache, active_accidents |-> [r \in Roads |-> <<>>]]

---------------------------------------------------------------------------
(* main.py: the decision endpoint.                                         *)

DecisionRequest(ls, controlMode) == [lanes |-> ls, controlMode |-> controlMode]

DecisionResponse(d, fallbackMode, errorMessage) ==
    [status |-> 200, decision |-> <<d>>, fallbackMode |-> fallbackMode,
     errorMessage |-> errorMessage]

HTTPException(status_code, detail) ==
    [status |-> status_code, decision |-> <<>>, fallbackMode |-> FALSE,
     errorMessage |-> <<detail>>]

InternalServerError ==
    [status |-> 500, decision |-> <<>>, fallbackMode |-> FALSE, errorMessage |-> <<>>]

\* the call ends in the fallback decision, or in the exception of float(total_vehicles)
_create_fallback_decision(ls, t) ==
    LET total_vehicles(lane) ==
            lane.vision.vehicleCountByType.car + lane.vision.vehicleCountByType.truck
              + lane.vision.vehicleCountByType.bus
        HasVehicles(lane) == total_vehicles(lane) > 0
        i == FirstIndex([k \in DOMAIN ls |-> HasVehicles(ls[k])])
    IN  IF i # 0
        THEN IF Overflows(total_vehicles(ls[i]))
             THEN Raise("OverflowError")
             ELSE Return(SignalDecision(ls[i].direction, Float(15), ProbUnit \div 2,
                             DecisionReason(FALSE, FALSE, 0, Float(1), ProbUnit \div 2,
                                            Float(total_vehicles(ls[i]))), t),
                         NoLocals)
        ELSE Return(SignalDecision("North", Float(10), ProbUnit \div 2,
                        DecisionReason(FALSE, FALSE, 0, Float(1), ProbUnit \div 4, 0), t),
                    NoLocals)

\* the enrichment loop from position i on: every lane's downstream replaced
\* by the adapter's answer
RECURSIVE Enrich(_, _, _, _, _)
Enrich(ls, i, ad, t, draw) ==
    IF i > Len(ls)
    THEN [lanes |-> ls, cache |-> ad.cache, active_accidents |-> ad.active_accidents]
    ELSE CHOOSE e \in
            {Enrich([ls EXCEPT ![i].downstream = <<r.data>>], i + 1,
                    [cache |-> r.cache, active_accidents |-> r.active_accidents],
                    t, draw) :
             r \in {get_downstream_traffic(ad, ls[i].direction, <<"Clear Sky">>, t,
                                          draw)}} : TRUE

\* the except branch: the fallback's decision, or its exception, which
\* nothing catches
Fallback(ls, t) ==
    LET f == _create_fallback_decision(ls, t)
    IN  IF f.raised # None
        THEN InternalServerError
        ELSE DecisionResponse(f.decision[1], TRUE, <<"Error. Using fallback logic.">>)

\* the handler from decide on, e being the lanes and the adapter as the
\* enrichment loop left them
Respond(e, t) ==
    {[response |-> IF r.raised # None
                   THEN Fallback(e.lanes, t)
                   ELSE DecisionResponse(r.decision[1], FALSE, None),
      lanes |-> e.lanes, locals |-> r.locals,
      cache |-> e.cache, active_accidents |-> e.active_accidents] :
     r \in decide(e.lanes, t)}

\* make_decision(request) at time t: what the handler can answer and leave behind
make_decision(req, ad, t, draw) ==
    IF req.controlMode # "ai"
    THEN {[response |-> HTTPException(400, "Backend only processes AI mode requests"),
           lanes |-> req.lanes, locals |-> NoLocals,
           cache |-> ad.cache, active_accidents |-> ad.active_accidents]}
    ELSE IF req.lanes = <<>>
    THEN {[response |-> HTTPException(400, "No lane data provided"),
           lanes |-> req.lanes, locals |-> NoLocals,
           cache |-> ad.cache, active_accidents |-> ad.active_accidents]}
    ELSE UNION {Respond(e, t) : e \in {Enrich(req.lanes, 1, ad, t, draw)}}

---------------------------------------------------------------------------
(* The engine called on a snapshot.                                        *)

EngineInit ==
    /\ now = Float(StartTime)
    /\ lanes \in Snapshots(now)
    /\ pc = "call"
    /\ priorities = <<>>
    /\ adjusted = <<>>
    /\ probabilities = <<>>
    /\ decision = NoDecision
    /\ request = <<>>
    /\ response = <<>>
    /\ cache = EmptyCache
    /\ active_accidents = [r \in Roads |-> <<>>]
    /\ engine = DecisionEngine
    /\ calls = <<>>
    /\ rng = 0
    /\ query = <<>>

\* a decide that records the green it grants in the snapshot it was given
DecideStampingGreen ==
    /\ pc = "call"
    /\ \E r \in decide(lanes, now) :
        /\ decision' = r.decision
        /\ priorities' = r.locals.priorities
        /\ adjusted' = r.locals.adjusted
        /\ probabilities' = r.locals.probabilities
        /\ pc' = IF r.raised = None THEN "returned" ELSE "raised"
        /\ lanes' = IF r.raised = None
                    THEN [lanes EXCEPT ![IndexOf(lanes, r.decision[1].selectedLane)]
                                           .lastGreenTime = now]
                    ELSE lanes
    /\ UNCHANGED <<now, request, response, cache, active_accidents, otherVars>>

\* decision = decision_engine.decide(lanes): the call assigns to no field of
\* self and to nothing reachable from lanes
Decide ==
    /\ pc = "call"
    /\ \E r \in decide(lanes, now) :
        /\ decision' = r.decision
        /\ priorities' = r.locals.priorities
        /\ adjusted' = r.locals.adjusted
        /\ probabilities' = r.locals.probabilities
        /\ pc' = IF r.raised = None THEN "returned" ELSE "raised"
    /\ UNCHANGED <<lanes, now, request, response, cache, active_accidents, otherVars>>

\* the caller's next cycle: decide is called again on the snapshot, its
\* locals of the last call gone
NextCycle ==
    /\ pc \in {"returned", "raised"}
    /\ pc' = "call"
    /\ decision' = NoDecision
    /\ priorities' = <<>>
    /\ adjusted' = <<>>
    /\ probabilities' = <<>>
    /\ UNCHANGED <<lanes, now, request, response, cache, active_accidents, otherVars>>

EngineNext == Decide \/ NextCycle

EngineSpec == EngineInit /\ [][EngineNext]_vars

---------------------------------------------------------------------------
(* The server: requests arrive one at a time (the handler never awaits),   *)
(* and the clock advances between them.                                    *)

\* seconds between two readings of the clock
TickStep == cache_ttl \div 2

\* readings of the clock after the first
MaxTicks == 2

Evening == [hour |-> 18, day_of_week |-> 2, u_time |-> 0, u_weather |-> 0,
            u_random |-> 0, u_accident |-> 0, roll |-> TRUE, duration |-> 15 * 60]

Night == [hour |-> 23, day_of_week |-> 2, u_time |-> Unit, u_weather |-> Unit,
          u_random |-> Unit, u_accident |-> Unit, roll |-> FALSE, duration |-> 45 * 60]

\* what the simulations of one request take from the clock's hour and the
\* random module
SimDraws == {Evening, Night}

RequestLane(d, counts, amb, wait) ==
    LaneState(d, VisionOutput(counts, Float(30), Half, amb, FALSE, Float(1)), None,
              wait, 0)

Requests ==
    {DecisionRequest(<<RequestLane("North", VehicleCount(0, Huge, 0, 0, 0, 2), FALSE, 0),
                       RequestLane("South", VehicleCount(3, 0, 0, 0, 0, 0), FALSE, 0),
                       RequestLane("East", NoVehicles, FALSE, 0),
                       RequestLane("West", VehicleCount(0, 0, 1, 0, 0, 0), FALSE, 0)>>,
                     "ai"),
     DecisionRequest(<<RequestLane("North", NoVehicles, FALSE, 0),
                       RequestLane("South", VehicleCount(0, 4, 0, 0, 0, 0), FALSE, 0),
                       RequestLane("East", VehicleCount(2, 0, 0, 0, 0, 0), FALSE, 0),
                       RequestLane("West", NoVehicles, FALSE, 0)>>, "ai"),
     DecisionRequest(<<RequestLane("South", VehicleCount(Huge, 0, 0, 0, 0, 0), FALSE, 0),
                       RequestLane("East", NoVehicles, FALSE, 0)>>, "ai"),
     DecisionRequest(<<RequestLane("East", VehicleCount(0, 0, 0, 0, 0, Huge), FALSE, 0),
                       RequestLane("South", VehicleCount(0, 6, 0, 0, 0, 0), FALSE, 0)>>,
                     "ai"),
     DecisionRequest(<<RequestLane("West", VehicleCount(0, 0, 0, 2, 0, 0), TRUE, 0),
                       RequestLane("North", VehicleCount(Huge, 0, 0, 0, 0, 0), FALSE, 0)>>,
                     "ai"),
     DecisionRequest(<<RequestLane("West", VehicleCount(0, 0, 0, Huge, 0, 0), FALSE, 0),
                       RequestLane("North", VehicleCount(2, 0, 0, 0, 0, 0), FALSE,
                                   Float(130))>>, "ai"),
     DecisionRequest(<<RequestLane("North", VehicleCount(1, 0, 0, 0, 0, 0), FALSE, 0)>>,
                     "manual"),
     DecisionRequest(<<>>, "ai")}

Init ==
    /\ now = Float(StartTime)
    /\ lanes = <<>>
    /\ pc = "idle"
    /\ priorities = <<>>
    /\ adjusted = <<>>
    /\ probabilities = <<>>
    /\ decision = <<>>
    /\ request = <<>>
    /\ response = <<>>
    /\ cache = EmptyCache
    /\ active_accidents = [r \in Roads |-> <<>>]
    /\ engine = DecisionEngine
    /\ calls = <<>>
    /\ rng = 0
    /\ query = <<>>

\* POST /api/decision
MakeDecision ==
    /\ pc \in {"idle", "responded"}
    /\ \E req \in Requests :
       \E draw \in SimDraws :
       \E r \in make_decision(req, [cache |-> cache, active_accidents |-> active_accidents],
                              now, draw) :
            /\ request' = <<req>>
            /\ response' = <<r.response>>
            /\ decision' = r.response.decision
            /\ lanes' = r.lanes
            /\ priorities' = r.locals.priorities
            /\ adjusted' = r.locals.adjusted
            /\ probabilities' = r.locals.probabilities
            /\ cache' = r.cache
            /\ active_accidents' = r.active_accidents
    /\ pc' = "responded"
    /\ UNCHANGED <<now, otherVars>>

\* time passes between two requests
Tick ==
    /\ pc \in {"idle", "responded"}
    /\ now < Float(StartTime + MaxTicks * TickStep)
    /\ now' = now + Float(TickStep)
    /\ UNCHANGED <<lanes, pc, priorities, adjusted, probabilities, decision, request,
                   response, cache, active_accidents, otherVars>>

Next == MakeDecision \/ Tick

Spec == Init /\ [][Next]_vars

---------------------------------------------------------------------------
(* Several decide invocations in progress on the one engine, their steps   *)
(* interleaved.  Each invocation has its own argument and locals; self,    *)
(* the clock and NumPy's global generator are what they have in common.    *)

\* decide invocations in progress at once
MaxCalls == 2

Invocations == 1..MaxCalls

\* the uniform samples the global generator yields, state after state
UniformSamples == <<0, ProbUnit \div 2, ProbUnit - 1000>>

\* np.random.choice(n, p=probs) on the uniform sample u: the first index whose
\* cumulative probability exceeds u (cdf.searchsorted(u, side='right'))
Choice(probs, u) ==
    LET cdf == [i \in DOMAIN probs |-> SeqSum([k \in 1..i |-> probs[k].p])]
    IN  IF \E i \in DOMAIN probs : cdf[i] > u
        THEN CHOOSE i \in DOMAIN probs : cdf[i] > u /\ \A j \in 1..(i - 1) : cdf[j] <= u
        ELSE Len(probs)

ConcLane(d, counts, amb, wait, lg) ==
    LaneState(d, VisionOutput(counts, 0, Float(1), amb, FALSE, Float(1)), None, wait, lg)

\* the arguments of the invocations: a scoring snapshot with unequal lanes,
\* one with equal lanes, an emergency, a forced green, a count out of range
ConcSnapshots(t) ==
    {<<ConcLane("North", VehicleCount(1, 0, 0, 0, 0, 0), FALSE, 0, 0),
       ConcLane("South", NoVehicles, FALSE, 0, 0)>>,
     <<ConcLane("East", NoVehicles, FALSE, 0, t),
       ConcLane("West", NoVehicles, FALSE, 0, 0),
       ConcLane("North", NoVehicles, FALSE, 0, 0)>>,
     <<ConcLane("North", NoVehicles, FALSE, Float(130), 0),
       ConcLane("South", NoVehicles, TRUE, 0, 0)>>,
     <<ConcLane("South", VehicleCount(2, 0, 0, 0, 0, 0), FALSE, Float(130), 0),
       ConcLane("East", VehicleCount(Huge, 0, 0, 0, 0, 0), FALSE, 0, 0)>>,
     <<ConcLane("West", VehicleCount(0, 0, Huge, 0, 0, 0), FALSE, 0, 0)>>}

\* an invocation at its first line
Invocation(ls) ==
    [pc |-> "emergency", lanes |-> ls, priorities |-> <<>>, adjusted |-> <<>>,
     probabilities |-> <<>>, selected_lane |-> None, decision |-> NoDecision,
     raised |-> None]

ConcInit ==
    /\ now = Float(StartTime)
    /\ calls \in [Invocations -> {Invocation(ls) : ls \in ConcSnapshots(now)}]
    /\ rng \in DOMAIN UniformSamples
    /\ engine = DecisionEngine
    /\ pc = "serving"
    /\ lanes = <<>>
    /\ priorities = <<>>
    /\ adjusted = <<>>
    /\ probabilities = <<>>
    /\ decision = NoDecision
    /\ request = <<>>
    /\ response = <<>>
    /\ cache = EmptyCache
    /\ active_accidents = [r \in Roads |-> <<>>]
    /\ query = <<>>

\* what no step of an invocation touches
concFrame ==
    <<lanes, now, pc, priorities, adjusted, probabilities, decision, request, response,
      cache, active_accidents, engine, query>>

\* step 1: emergency check
CheckEmergency(i) ==
    /\ calls[i].pc = "emergency"
    /\ LET c == calls[i]
           emergency_lane == _check_emergency(c.lanes)
       IN  calls' = [calls EXCEPT ![i] =
               IF emergency_lane # None
               THEN [c EXCEPT !.pc = "done",
                              !.decision = <<_create_emergency_decision(
                                               emergency_lane[1], c.lanes, now)>>]
               ELSE [c EXCEPT !.pc = "max_wait"]]
    /\ UNCHANGED <<rng, concFrame>>

\* step 2: max wait violation
CheckMaxWait(i) ==
    /\ calls[i].pc = "max_wait"
    /\ LET c == calls[i]
           max_wait_lane == _check_max_wait(c.lanes)
       IN  calls' = [calls EXCEPT ![i] =
               IF max_wait_lane = None
               THEN [c EXCEPT !.pc = "priorities"]
               ELSE IF ScoreOverflows(Lookup(c.lanes, max_wait_lane[1]))
               THEN [c EXCEPT !.pc = "done", !.raised = <<"OverflowError">>]
               ELSE [c EXCEPT !.pc = "done",
                              !.decision = <<_create_forced_decision(
                                               max_wait_lane[1], c.lanes,
                                               "max_wait_violation", now)>>]]
    /\ UNCHANGED <<rng, concFrame>>

\* step 3: net priorities
NetPriorities(i) ==
    /\ calls[i].pc = "priorities"
    /\ LET c == calls[i]
       IN  calls' = [calls EXCEPT ![i] =
               IF \E k \in DOMAIN c.lanes : ScoreOverflows(c.lanes[k])
               THEN [c EXCEPT !.pc = "done", !.raised = <<"OverflowError">>]
               ELSE [c EXCEPT !.pc = "decay",
                              !.priorities = _calculate_net_priorities(c.lanes)]]
    /\ UNCHANGED <<rng, concFrame>>

\* a decay that keeps the adjusted priorities in a field of self, where every
\* invocation finds them
ApplyDecayOnSelf(i) ==
    /\ calls[i].pc = "decay"
    /\ LET c == calls[i]
           kept == _apply_recent_green_decay(c.lanes, c.priorities, now)
       IN  calls' = [j \in Invocations |->
               IF j = i
               THEN [c EXCEPT !.pc = "softmax", !.adjusted = kept]
               ELSE [calls[j] EXCEPT !.adjusted = kept]]
    /\ UNCHANGED <<rng, concFrame>>

\* step 4: recent green decay, which reads the clock
ApplyDecay(i) ==
    /\ calls[i].pc = "decay"
    /\ LET c == calls[i]
       IN  calls' = [calls EXCEPT ![i] =
               [c EXCEPT !.pc = "softmax",
                         !.adjusted =
                            _apply_recent_green_decay(c.lanes, c.priorities, now)]]
    /\ UNCHANGED <<rng, concFrame>>

\* step 5: softmax
Softmax(i) ==
    /\ calls[i].pc = "softmax"
    /\ LET c == calls[i]
       IN  calls' = [calls EXCEPT ![i] =
               [c EXCEPT !.pc = "select",
                         !.probabilities = _softmax(c.adjusted, TEMPERATURE)]]
    /\ UNCHANGED <<rng, concFrame>>

\* step 6: np.random.choice draws from the global generator, under its lock,
\* and leaves it in its next state
SelectLane(i) ==
    /\ calls[i].pc = "select"
    /\ LET c == calls[i]
       IN  calls' = [calls EXCEPT ![i] =
               [c EXCEPT !.pc = "create",
                         !.selected_lane =
                            <<_select_lane(c.lanes, c.probabilities,
                                  Choice(c.probabilities, UniformSamples[rng]))>>]]
    /\ rng' = (rng % Len(UniformSamples)) + 1
    /\ UNCHANGED concFrame

\* steps 7 and 8: green time and the decision
CreateDecision(i) ==
    /\ calls[i].pc = "create"
    /\ LET c == calls[i]
       IN  calls' = [calls EXCEPT ![i] =
               [c EXCEPT !.pc = "done",
                         !.decision =
                            <<_create_decision(c.selected_lane[1],
                                  _calculate_green_duration(
                                      Lookup(c.lanes, c.selected_lane[1])),
                                  c.lanes, c.adjusted, c.probabilities, now)>>]]
    /\ UNCHANGED <<rng, concFrame>>

ConcNext ==
    \E i \in Invocations :
        \/ CheckEmergency(i) \/ CheckMaxWait(i) \/ NetPriorities(i) \/ ApplyDecay(i)
        \/ Softmax(i) \/ SelectLane(i) \/ CreateDecision(i)

ConcSpec == ConcInit /\ [][ConcNext]_vars

---------------------------------------------------------------------------
(* The maps adapter under its callers: queries for a lane and a weather,   *)
(* accidents triggered and cleared, the weather set, the clock advancing.  *)

\* calls made on the adapter in one behaviour
MaxOps == 3

\* the (lane, weather_condition) pairs queried: every lane and every weather
\* test, None as get_traffic_summary passes it
MapsQueries ==
    {<<"North", None>>, <<"North", <<"Clear Sky">>>>, <<"North", <<"Snow">>>>,
     <<"South", <<"Thunderstorm">>>>, <<"East", <<"">>>>, <<"West", <<"Fog">>>>}

\* the accidents triggered: (lane, duration_minutes); one that expires within
\* the time modelled and one that outlasts it, as the default of 30 does
Accidents == {<<"North", 1>>, <<"East", 10>>}

\* the call just made on the adapter
Call(op, lane, weather_condition, data, simulated) ==
    <<[op |-> op, lane |-> lane, weather |-> weather_condition, data |-> data,
       simulated |-> simulated,
       after |-> IF query = <<>> THEN "none" ELSE query[1].op,
       seq |-> IF query = <<>> THEN 1 ELSE query[1].seq + 1]>>

Made == IF query = <<>> THEN 0 ELSE query[1].seq

MapsInit ==
    /\ now = Float(StartTime)
    /\ cache = EmptyCache
    /\ active_accidents = [r \in Roads |-> <<>>]
    /\ query = <<>>
    /\ pc = "maps"
    /\ lanes = <<>>
    /\ priorities = <<>>
    /\ adjusted = <<>>
    /\ probabilities = <<>>
    /\ decision = NoDecision
    /\ request = <<>>
    /\ response = <<>>
    /\ engine = DecisionEngine
    /\ calls = <<>>
    /\ rng = 0

\* what no call on the adapter touches
mapsFrame ==
    <<lanes, pc, priorities, adjusted, probabilities, decision, request, response,
      engine, calls, rng>>

\* maps_adapter.get_downstream_traffic(lane, weather_condition)
Query ==
    /\ Made < MaxOps
    /\ \E q \in MapsQueries, draw \in SimDraws :
       \E r \in {get_downstream_traffic(
                    [cache |-> cache, active_accidents |-> active_accidents],
                    q[1], q[2], now, draw)} :
            /\ query' = Call("get_downstream_traffic", q[1], q[2], <<r.data>>,
                             r.cache # cache)
            /\ cache' = r.cache
            /\ active_accidents' = r.active_accidents
    /\ UNCHANGED <<now, mapsFrame>>

\* POST /api/traffic/accident
TriggerAccident ==
    /\ Made < MaxOps
    /\ \E a \in Accidents :
       \E ad \in {trigger_accident([cache |-> cache, active_accidents |-> active_accidents],
                                   a[1], a[2], now)} :
            /\ query' = Call("trigger_accident", a[1], None, <<>>, FALSE)
            /\ cache' = ad.cache
            /\ active_accidents' = ad.active_accidents
    /\ UNCHANGED <<now, mapsFrame>>

\* POST /api/traffic/clear-accidents
ClearAccidents ==
    /\ Made < MaxOps
    /\ \E ad \in {clear_accidents([cache |-> cache, active_accidents |-> active_accidents])} :
            /\ query' = Call("clear_accidents", "North", None, <<>>, FALSE)
            /\ cache' = ad.cache
            /\ active_accidents' = ad.active_accidents
    /\ UNCHANGED <<now, mapsFrame>>

\* maps_adapter.set_weather(weather_condition)
SetWeather ==
    /\ Made < MaxOps
    /\ \E ad \in {set_weather([cache |-> cache, active_accidents |-> active_accidents],
                              "Snow")} :
            /\ query' = Call("set_weather", "North", <<"Snow">>, <<>>, FALSE)
            /\ cache' = ad.cache
            /\ active_accidents' = ad.active_accidents
    /\ UNCHANGED <<now, mapsFrame>>

\* time passes between two calls: half the cache's time to live, or all of it
MapsTick ==
    /\ now < Float(StartTime + cache_ttl)
    /\ \E step \in {TickStep, cache_ttl} : now' = now + Float(step)
    /\ UNCHANGED <<cache, active_accidents, query, mapsFrame>>

MapsNext == Query \/ TriggerAccident \/ ClearAccidents \/ SetWeather \/ MapsTick

MapsSpec == MapsInit /\ [][MapsNext]_vars

---------------------------------------------------------------------------
(* Properties of decide.                                                   *)

Returned == pc = "returned" /\ decision # NoDecision

\* the call ran steps 3 to 8: neither override returned early
OnScoringPath == Returned /\ probabilities # <<>>

Selected == Lookup(lanes, decision[1].selectedLane)

AmbulanceAt(i) == lanes[i].vision.ambulanceDetected

WaitedAt(i) == lanes[i].waitTime > Float(120)

One == ProbUnit

\* C1: whenever some lane has ambulanceDetected, decide returns the first such
\* lane of the dict order with greenDuration 60, decisionConfidence 1.0 and
\* reasonTrace.emergency, and maxWaitViolation stays false, whatever the other
\* lanes hold.
C1_EmergencyPrecedence ==
    (Returned /\ \E i \in DOMAIN lanes : AmbulanceAt(i)) =>
        /\ \E i \in DOMAIN lanes :
            /\ AmbulanceAt(i)
            /\ \A j \in 1..(i - 1) : ~AmbulanceAt(j)
            /\ decision[1].selectedLane = lanes[i].direction
        /\ decision[1].greenDuration = Float(60)
        /\ decision[1].decisionConfidence = One
        /\ decision[1].reasonTrace.emergency
        /\ ~decision[1].reasonTrace.maxWaitViolation

\* two ambulance lanes, the second one chosen by no means, behind a lane that
\* has waited more than 120 s
C1_Witness ==
    /\ Returned
    /\ Len(lanes) = 4
    /\ WaitedAt(1) /\ ~AmbulanceAt(1)
    /\ AmbulanceAt(2) /\ AmbulanceAt(4)
    /\ decision[1].selectedLane = lanes[2].direction
    /\ decision[1].reasonTrace.emergency

C5_DurationBounds ==
    OnScoringPath =>
        /\ Float(5) <= decision[1].greenDuration
        /\ decision[1].greenDuration <= Float(60)

\* the clamp acts: a loaded lane read with confidence 0 is selected
C5_Witness ==
    /\ OnScoringPath
    /\ Selected.vision.confidenceScore = 0
    /\ _calculate_local_traffic_score(Selected) > Float(50)
    /\ decision[1].greenDuration = Float(5)

\* C6: on the scoring path every lane of the snapshot has a strictly positive
\* selection probability and so is an index the random draw can return.
C6_EveryLaneSelectable ==
    OnScoringPath => \A i \in DOMAIN lanes : i \in RandomChoice(probabilities)

\* C7 as stated: on the scoring path the lane decide selects is never one
\* whose lastGreenTime equals the current time.
C7_SuppressedNeverSelected ==
    OnScoringPath => Selected.lastGreenTime # now

\* C7 as amended: a lane whose lastGreenTime equals the current time has
\* adjusted priority 0, and its softmax probability does not exceed that of
\* any lane whose adjusted priority is not negative.
C7_SuppressedLeastLikely ==
    OnScoringPath =>
        \A i \in DOMAIN lanes :
            lanes[i].lastGreenTime = now =>
                /\ adjusted[i] = 0
                /\ \A j \in DOMAIN lanes :
                    adjusted[j] >= 0 =>
                        /\ probabilities[i].p <= probabilities[j].p
                        /\ probabilities[i].nz => probabilities[j].nz

\* a loaded lane served this instant loses to a lane with less traffic
C7_Witness ==
    /\ OnScoringPath
    /\ \E i, j \in DOMAIN lanes :
        /\ lanes[i].lastGreenTime = now
        /\ priorities[i] > priorities[j]
        /\ priorities[j] > 0
        /\ probabilities[i].p < probabilities[j].p
        /\ decision[1].selectedLane = lanes[j].direction

\* C8: the adjusted priority is netPriority x 0 at now = lastGreenTime,
\* netPriority x (now - lastGreenTime) / 30 inside the 30 s window, and the
\* net priority itself from 30 s on.
C8_RecencyDecay ==
    OnScoringPath =>
        \A i \in DOMAIN lanes :
            LET since == now - lanes[i].lastGreenTime
            IN  /\ since = 0 => adjusted[i] = 0
                /\ (0 < since /\ since < Float(30)) =>
                      adjusted[i] = Mul(priorities[i], MulDiv(since, 1, 30))
                /\ since >= Float(30) => adjusted[i] = priorities[i]

\* all three cases at once, on lanes with traffic
C8_Witness ==
    /\ OnScoringPath
    /\ \E i, j, k \in DOMAIN lanes :
        /\ priorities[i] > 0 /\ lanes[i].lastGreenTime = now /\ adjusted[i] = 0
        /\ priorities[j] > 0 /\ lanes[j].lastGreenTime = now - Float(15)
        /\ 2 * adjusted[j] = priorities[j]
        /\ priorities[k] > 0 /\ lanes[k].lastGreenTime = now - Float(30)
        /\ adjusted[k] = priorities[k]

\* C19: for every lane and every lastGreenTime, a timestamp ahead of the clock
\* included, the decay factor lies in [0, 1], so 0 <= adjustedPriority <=
\* netPriority.
C19_DecayFactorRange ==
    OnScoringPath =>
        \A i \in DOMAIN lanes :
            /\ 0 <= RecentGreenDecay(lanes[i], now)
            /\ RecentGreenDecay(lanes[i], now) <= Float(1)
            /\ 0 <= adjusted[i]
            /\ adjusted[i] <= priorities[i]

\* C9: on the scoring path every softmax output is strictly positive and the
\* outputs sum to 1 within 1e-6.
C9_ProbabilityNormalization ==
    OnScoringPath =>
        /\ \A i \in DOMAIN probabilities : probabilities[i].nz
        /\ Abs(SeqSum([i \in DOMAIN probabilities |-> probabilities[i].p]) - One)
              <= One \div 1000000

\* C10: the downstream factor of every lane lies in [0.1, 1.0], and is 1.0
\* for a lane without downstream data.
C10_DownstreamFactorRange ==
    Returned =>
        \A i \in DOMAIN lanes :
            /\ Unit \div 10 <= _calculate_downstream_priority(lanes[i])
            /\ _calculate_downstream_priority(lanes[i]) <= Float(1)
            /\ lanes[i].downstream = None =>
                  _calculate_downstream_priority(lanes[i]) = Float(1)


---------------------------------------------------------------------------
(* Properties of make_decision.                                            *)

Responded == pc = "responded"

\* the cycle of an AI-mode request with at least one lane has ended
AiCycle == Responded /\ request[1].controlMode = "ai" /\ request[1].lanes # <<>>

\* the lane has a non-zero count in some category of VehicleCount
AnyVehicles(lane) ==
    LET vehicles == lane.vision.vehicleCountByType
    IN  \/ vehicles.car # 0 \/ vehicles.bike # 0 \/ vehicles.truck # 0
        \/ vehicles.bus # 0 \/ vehicles.emergency # 0 \/ vehicles.pedestrians # 0

\* C3: every cycle of an AI-mode request with at least one lane ends with a
\* response that carries a decision: when decide raised on the enriched lanes,
\* the fallback decision with fallbackMode = true and an error message;
\* otherwise a decision decide can return, with fallbackMode = false.
C3_AlwaysADecision ==
    AiCycle =>
        /\ response[1].decision # NoDecision
        /\ LET d == response[1].decision[1]
               results == decide(lanes, d.timestamp)
           IN  IF \E r \in results : r.raised # None
               THEN /\ response[1].fallbackMode
                    /\ response[1].errorMessage # None
                    /\ <<d>> = _create_fallback_decision(lanes, d.timestamp).decision
               ELSE /\ ~response[1].fallbackMode
                    /\ \E r \in results : r.decision = <<d>>

\* C4: the fallback decision selects the first lane, in the order of the
\* request, that has a non-zero count in any vehicle category, for 15 s; it
\* selects North for 10 s only when every lane is empty.
C4_FallbackFirstOccupied ==
    (AiCycle /\ response[1].fallbackMode) =>
        LET d == response[1].decision[1]
            i == FirstIndex([k \in DOMAIN lanes |-> AnyVehicles(lanes[k])])
        IN  IF i # 0
            THEN d.selectedLane = lanes[i].direction /\ d.greenDuration = Float(15)
            ELSE d.selectedLane = "North" /\ d.greenDuration = Float(10)

\* C18: the selectedLane of every decision returned to the client, by decide
\* or by the fallback, is a lane of the request's snapshot.
C18_SelectedLaneInRequest ==
    (Responded /\ response[1].decision # NoDecision) =>
        \E i \in DOMAIN request[1].lanes :
            response[1].decision[1].selectedLane = request[1].lanes[i].direction

---------------------------------------------------------------------------
(* Properties of the engine across calls.                                  *)

\* C11: no step of a sequence of decide calls changes a field of a LaneState
\* passed in, and the engine's fields stay as __init__ set them.
C11_DecideFrame ==
    [][lanes' = lanes /\ engine' = engine /\ engine = DecisionEngine]_vars

\* decide has returned a softmax decision for a lane served inside the decay
\* window, whose lastGreenTime is what the caller passed
C11_Witness ==
    /\ OnScoringPath
    /\ engine = DecisionEngine
    /\ Selected.lastGreenTime = now - Float(15)

---------------------------------------------------------------------------
(* Properties of interleaved invocations.                                  *)

\* the invocation has ended as decide can end when it runs alone on its snapshot
EndsAsAlone(c) ==
    \E r \in decide(c.lanes, now) : r.raised = c.raised /\ r.decision = c.decision

\* the invocations whose locals the step changes
Stepped == {i \in Invocations : calls'[i] # calls[i]}

\* C12 as stated: every invocation ends as it could have ended alone, and no
\* step of an invocation writes a variable the invocations share.
C12_NoSharedVariable ==
    /\ [](\A i \in Invocations : calls[i].pc = "done" => EndsAsAlone(calls[i]))
    /\ [][engine' = engine /\ rng' = rng /\ Cardinality(Stepped) <= 1]_vars

\* C12 as amended: every invocation ends as it could have ended alone; the
\* engine's fields are never written and a step changes the locals of one
\* invocation only; the one shared variable written is the state of NumPy's
\* global generator, by the draw of _select_lane.
C12_OnlyGeneratorShared ==
    /\ [](\A i \in Invocations : calls[i].pc = "done" => EndsAsAlone(calls[i]))
    /\ [][/\ engine' = engine
          /\ Cardinality(Stepped) <= 1
          /\ rng' # rng =>
                \E i \in Invocations : calls[i].pc = "select" /\ calls'[i].pc = "create"]_vars

\* two invocations have drawn from the generator one after the other and
\* both returned a softmax decision
C12_Witness ==
    /\ \A i \in Invocations :
        calls[i].pc = "done" /\ calls[i].probabilities # <<>> /\ calls[i].decision # NoDecision
    /\ \E i, j \in Invocations :
        /\ i # j
        /\ calls[i].lanes = calls[j].lanes
        /\ calls[i].decision[1].selectedLane # calls[j].decision[1].selectedLane

---------------------------------------------------------------------------
(* Scenarios of the scoring path.                                          *)

Congested(l) ==
    /\ l.vision.vehicleCountByType = VehicleCount(20, 0, 0, 0, 0, 0)
    /\ l.vision.avgSpeed = 0
    /\ l.vision.laneOccupancy = Float(1)

Empty(l) == l.vision.vehicleCountByType = NoVehicles

\* lane i is the congested one of four, the other three are empty
SingleCongested(i) ==
    /\ Len(lanes) = 4
    /\ Congested(lanes[i])
    /\ \A j \in DOMAIN lanes \ {i} : Empty(lanes[j])

\* C14: in every non-override snapshot with one lane of 20 cars at speed 0 and
\* occupancy 1.0 and three empty lanes, the congested lane's softmax
\* probability is strictly greater than each empty lane's and its green
\* duration is strictly greater than MIN_GREEN.
C14_SingleCongestedLane ==
    OnScoringPath =>
        \A i \in DOMAIN lanes :
            SingleCongested(i) =>
                /\ \A j \in DOMAIN lanes \ {i} :
                        probabilities[i].p > probabilities[j].p
                /\ _calculate_green_duration(lanes[i]) > MIN_GREEN

\* C14 as the code has it: the probability is strictly greater when the
\* congested lane was last served before now, and the duration is
\* max(MIN_GREEN, MAX_GREEN x confidenceScore), above MIN_GREEN exactly when
\* the confidence is above MIN_GREEN / MAX_GREEN
C14_SingleCongestedLaneServedBefore ==
    OnScoringPath =>
        \A i \in DOMAIN lanes :
            SingleCongested(i) =>
                /\ lanes[i].lastGreenTime < now =>
                        \A j \in DOMAIN lanes \ {i} :
                            probabilities[i].p > probabilities[j].p
                /\ lanes[i].lastGreenTime = now =>
                        \A j \in DOMAIN lanes \ {i} :
                            probabilities[i].p = probabilities[j].p
                /\ _calculate_green_duration(lanes[i]) =
                        Max(MIN_GREEN, Mul(MAX_GREEN, lanes[i].vision.confidenceScore))
                /\ _calculate_green_duration(lanes[i]) > MIN_GREEN
                        <=> Mul(MAX_GREEN, lanes[i].vision.confidenceScore) > MIN_GREEN

\* the congested lane half way through its decay window, its downstream at
\* gridlock, and still ahead of the three empty lanes
C14_Witness ==
    /\ OnScoringPath
    /\ \E i \in DOMAIN lanes :
        /\ SingleCongested(i)
        /\ lanes[i].lastGreenTime = now - Float(15)
        /\ lanes[i].downstream = <<DownstreamData(0, 0, 60)>>
        /\ \A j \in DOMAIN lanes \ {i} : probabilities[i].p > probabilities[j].p
        /\ _calculate_green_duration(lanes[i]) = MAX_GREEN

\* the lane with its rain flag set to r
WithRain(l, r) == [l EXCEPT !.vision.rainDetected = r]

\* what rain adds to the local score of lane l
RainGain(l) ==
    _calculate_local_traffic_score(WithRain(l, TRUE))
        - _calculate_local_traffic_score(WithRain(l, FALSE))

\* bikeCount x 0.3 x 1.0
RainBikeBonus(l) ==
    Mul(l.vision.vehicleCountByType.bike * VEHICLE_WEIGHTS.bike,
        RAIN_BIKE_MULTIPLIER - Float(1))

\* C15: for every lane with bikes, the local score with rain is strictly higher
\* than the score of the same lane without rain, and higher by
\* bikeCount x 0.3 x 1.0.
C15_RainAddsBikeBonus ==
    OnScoringPath =>
        \A i \in DOMAIN lanes :
            lanes[i].vision.vehicleCountByType.bike > 0 =>
                /\ RainGain(lanes[i]) > 0
                /\ RainGain(lanes[i]) = RainBikeBonus(lanes[i])

\* C15 as the code has it: the bonus is added before the speed and occupancy
\* factors, which multiply it with the rest of the sum
C15_RainBonusIsScaled ==
    OnScoringPath =>
        \A i \in DOMAIN lanes :
            lanes[i].vision.vehicleCountByType.bike > 0 =>
                LET speed_factor ==
                        Max(0, Float(1) - Div(lanes[i].vision.avgSpeed, Float(60)))
                IN  /\ RainGain(lanes[i]) > 0
                    /\ RainGain(lanes[i]) =
                            Mul(Mul(RainBikeBonus(lanes[i]), Float(1) + speed_factor),
                                Float(1) + lanes[i].vision.laneOccupancy)
                    /\ (speed_factor = 0 /\ lanes[i].vision.laneOccupancy = 0)
                            => RainGain(lanes[i]) = RainBikeBonus(lanes[i])

\* ten bikes in the rain at speed 30 on a full lane: the bonus of 3.0 counts 9.0
C15_Witness ==
    /\ OnScoringPath
    /\ \E i \in DOMAIN lanes :
        /\ lanes[i].vision.vehicleCountByType.bike = 10
        /\ lanes[i].vision.rainDetected
        /\ lanes[i].vision.avgSpeed = Float(30)
        /\ lanes[i].vision.laneOccupancy = Float(1)
        /\ RainBikeBonus(lanes[i]) = Float(3)
        /\ RainGain(lanes[i]) = Float(9)

\* four lanes without a vehicle, downstream data, ambulance or wait violation
EmptyIntersection ==
    /\ Len(lanes) = 4
    /\ \A i \in DOMAIN lanes :
        /\ Empty(lanes[i])
        /\ lanes[i].downstream = None
        /\ ~AmbulanceAt(i)
        /\ ~WaitedAt(i)

\* C16: on an empty intersection decide still returns a decision; it selects
\* one of the four lanes and its greenDuration is MIN_GREEN (5), whatever the
\* detection confidence of the lanes.
C16_EmptyIntersection ==
    (EmptyIntersection /\ pc # "call") =>
        /\ Returned
        /\ \E i \in DOMAIN lanes : decision[1].selectedLane = lanes[i].direction
        /\ decision[1].greenDuration = Float(5)
        /\ ~decision[1].reasonTrace.emergency
        /\ ~decision[1].reasonTrace.maxWaitViolation

\* the lane selected on the empty intersection is one read with confidence 0.5
C16_Witness ==
    /\ EmptyIntersection
    /\ OnScoringPath
    /\ Selected.vision.confidenceScore = Half
    /\ decision[1].greenDuration = MIN_GREEN
    /\ \A i \in DOMAIN probabilities : probabilities[i].p = ProbUnit \div 4

---------------------------------------------------------------------------
(* Properties of the maps adapter.                                         *)

\* the last call on the adapter was a query, answered with data
Answered == query # <<>> /\ query[1].op = "get_downstream_traffic"

\* C13: every get_downstream_traffic call, after any calls before it, returns
\* a DownstreamData with avgSpeed in [0, 100], congestionIndex in [0, 1] and
\* the ttl; the call is one step that waits for nothing.
C13_DownstreamContract ==
    Answered =>
        /\ query[1].data # <<>>
        /\ ValidSpeed(query[1].data[1].avgSpeed)
        /\ ValidFraction(query[1].data[1].congestionIndex)
        /\ query[1].data[1].ttl = cache_ttl

\* a query after an accident was triggered on the lane's road, simulated
\* while the accident is active, its speed held at the floor of 5
C13_Witness ==
    /\ Answered
    /\ query[1].seq > 1
    /\ query[1].simulated
    /\ active_accidents[downstream_roads[query[1].lane]] # <<>>
    /\ query[1].data[1].avgSpeed = Float(5)

\* this step is a get_downstream_traffic call
QueryStep == query' # query /\ query'[1].op = "get_downstream_traffic"

\* the cache holds an entry for the call c that is younger than cache_ttl
Fresh(c) ==
    LET entry == cache[CacheKey(c.lane, c.weather)]
    IN  entry # <<>> /\ now - entry[1].cached_time < Float(cache_ttl)

\* a query answered from a fresh entry returns the entry and simulates nothing
ServedFromCache ==
    (QueryStep /\ Fresh(query'[1])) =>
        /\ query'[1].data = <<cache[CacheKey(query'[1].lane, query'[1].weather)][1].data>>
        /\ ~query'[1].simulated
        /\ UNCHANGED <<cache, active_accidents>>

\* trigger_accident and clear_accidents leave the cache empty, and a query
\* that finds no entry is simulated and stored
Invalidated ==
    /\ (query' # query /\ query'[1].op \in {"trigger_accident", "clear_accidents"})
            => cache' = EmptyCache
    /\ (QueryStep /\ cache[CacheKey(query'[1].lane, query'[1].weather)] = <<>>)
            => /\ query'[1].simulated
               /\ cache'[CacheKey(query'[1].lane, query'[1].weather)] =
                    <<[data |-> query'[1].data[1], cached_time |-> now]>>

\* this step is the first call after trigger_accident, a query for the lane
\* of the accident
QueryAfterTrigger ==
    /\ QueryStep
    /\ query # <<>>
    /\ query[1].op = "trigger_accident"
    /\ query[1].lane = query'[1].lane

\* the data of call c is the simulation of draw against the registry
SimulatedWith(c, draw) ==
    c.data = <<_simulate_downstream_traffic(c.lane, c.weather, active_accidents,
                                            now, draw).data>>

\* the speed the draw gives call c on a road without an accident
AccidentFreeSpeed(c, draw) ==
    _simulate_downstream_traffic(c.lane, c.weather, [r \in Roads |-> <<>>], now,
                                 [draw EXCEPT !.roll = FALSE]).data.avgSpeed

\* the data of call c shows an accident: a simulation slower than the same
\* draw gives without one
SlowedByAccident(c) ==
    \E draw \in SimDraws :
        SimulatedWith(c, draw) /\ c.data[1].avgSpeed < AccidentFreeSpeed(c, draw)

\* C17: a query for a lane and weather whose entry is younger than cache_ttl
\* returns the entry without simulating; trigger_accident and clear_accidents
\* empty the cache, so the next query of every lane is simulated; the first
\* query after trigger_accident for the accident's lane shows the accident.
C17_CacheAndInvalidation ==
    [][/\ ServedFromCache
       /\ Invalidated
       /\ QueryAfterTrigger => SlowedByAccident(query'[1])]_vars

\* C17 as the code has it: while the accident lasts the query is simulated
\* with the accident's factor, which shows unless the speed without it is
\* already at the floor of 5; a query at or after the accident's end time
\* removes it from the registry and is simulated without it
C17_AccidentShownWhileActive ==
    [][/\ ServedFromCache
       /\ Invalidated
       /\ QueryAfterTrigger =>
            LET road_id == downstream_roads[query'[1].lane]
            IN  /\ active_accidents[road_id] # <<>>
                /\ IF now < active_accidents[road_id][1]
                   THEN /\ \E draw \in SimDraws :
                            /\ SimulatedWith(query'[1], draw)
                            /\ \/ query'[1].data[1].avgSpeed
                                    < AccidentFreeSpeed(query'[1], draw)
                               \/ AccidentFreeSpeed(query'[1], draw) = Float(5)
                        /\ active_accidents' = active_accidents
                   ELSE /\ \E draw \in SimDraws :
                            /\ SimulatedWith(query'[1], draw)
                            /\ query'[1].data[1].avgSpeed
                                    = AccidentFreeSpeed(query'[1], draw)
                        /\ active_accidents' =
                                [active_accidents EXCEPT ![road_id] = <<>>]]_vars

\* the first call after trigger_accident is a query for the accident's lane,
\* simulated while the accident lasts and stored in the emptied cache
C17_Witness ==
    /\ Answered
    /\ query[1].after = "trigger_accident"
    /\ query[1].seq = MaxOps
    /\ query[1].simulated
    /\ active_accidents[downstream_roads[query[1].lane]] # <<>>
    /\ now < active_accidents[downstream_roads[query[1].lane]][1]
    /\ query[1].data[1].avgSpeed <= Float(road_type_speeds[query[1].lane]) \div 2
    /\ cache[CacheKey(query[1].lane, query[1].weather)] # <<>>

====
